---- MODULE Spec2Model ----
(***************************************************************************)
(* Model of the two entry points of the playlist suggester:               *)
(*   api/sugerir_playlists.py.py  the FastAPI handler sugerir_playlists    *)
(*   api/daily_updater.py         the script atualizar_playlists           *)
(* Each loop header of the code is one control point (pc); the upstream    *)
(* search service (youtubesearchpython) answers every call with a result   *)
(* list chosen nondeterministically, or raises.  The handler keeps all its  *)
(* state in locals of the call, so the server's requests are taken one     *)
(* after another.  Category names are written without diacritics; the      *)
(* timestamp in the export's file name is left out.                        *)
(***************************************************************************)
EXTENDS Integers, Sequences, FiniteSets, TLC

VARIABLES
    programa,            \* which file runs: "server" or "updater"
    upstream,            \* how the search service answers: "varied" or "saturating"
    pc,                  \* control point of the running function
    categoria,           \* the category being processed
    ci,                  \* updater: position in categorias_canais.items()
    i,                   \* position in the list of seed channel names
    canais,              \* result list of the last channel search
    j,                   \* position in canais
    nome_canal,          \* c['title'] of the channel being processed
    playlists,           \* result list of the last playlist search
    k,                   \* position in playlists
    playlists_sugeridas, \* the list being collected
    seen_links,          \* server: links already collected
    todas_playlists,     \* updater: category -> collected list
    files,               \* updater: the objects dumped to playlists_<now>.json
    printed,             \* updater: the success message was printed
    response,            \* server: what the last request returned
    earlier_links,       \* history: links returned by earlier requests
    chanLog,             \* history: channel searches issued in this run
    plLog,               \* history: playlist searches issued in this run
    chanUsed,            \* upstream: channel records delivered in this run
    plUsed               \* upstream: playlist records delivered in this run

vars == <<programa, upstream, pc, categoria, ci, i, canais, j, nome_canal, playlists, k,
          playlists_sugeridas, seen_links, todas_playlists, files, printed,
          response, earlier_links, chanLog, plLog, chanUsed, plUsed>>

locals == <<categoria, i, canais, j, nome_canal, playlists, k,
            playlists_sugeridas, seen_links>>

-----------------------------------------------------------------------------
(* Bounds of the model *)

\* channel records the upstream delivers in one run, over all channel searches
MaxChannelRecords == 2
\* playlist records the upstream delivers in one run, over all playlist searches
MaxPlaylistRecords == 2

-----------------------------------------------------------------------------
(* Program constants *)

\* a search issued with a larger page
ChannelLimitMaior == 3 + 1

\* ChannelsSearch(canal, limit=3)
ChannelLimit == 3
\* PlaylistsSearch(nome_canal, limit=5)
PlaylistLimit == 5

\* the order of categorias_canais.items()
Categorias == <<"Inteligencia Artificial", "Marketing Digital">>

categorias_canais ==
    [c \in {"Inteligencia Artificial", "Marketing Digital"} |->
        IF c = "Inteligencia Artificial"
        THEN <<"Canal AI", "AI News">>
        ELSE <<"Marketing Total", "Growth Hacker">>]

CategoriaConhecida(c) == c \in DOMAIN categorias_canais

-----------------------------------------------------------------------------
(* The upstream search service *)

\* the channel titles the upstream may return
ChannelTitles == {"T1", "T2"}

OkThumbnails == <<[url |-> "u1"]>>

\* The playlist records the upstream may return: two links, one of them under
\* two titles, and one record whose thumbnail list is empty.
PlaylistRecords ==
    {[title |-> "A", link |-> "l1", thumbnails |-> OkThumbnails],
     [title |-> "B", link |-> "l1", thumbnails |-> OkThumbnails],
     [title |-> "A", link |-> "l2", thumbnails |-> OkThumbnails],
     [title |-> "B", link |-> "l1", thumbnails |-> <<>>]}

\* a category name the mapping does not know
RequestedCategories == (DOMAIN categorias_canais) \cup {"Culinaria"}

Min(a, b) == IF a < b THEN a ELSE b

SeqsUpTo(S, n) == UNION {[1..m -> S] : m \in 0..n}

\* the one record a saturating upstream repeats
FullChannel == "T1"
FullPlaylist == [title |-> "A", link |-> "l1", thumbnails |-> OkThumbnails]

\* The result lists a channel search with this limit may return.  A varied
\* upstream returns any list within the limit and within what it has left to
\* deliver in this run; a saturating upstream returns nothing or a full page.
ChannelResults(limit) ==
    IF upstream = "varied"
    THEN SeqsUpTo(ChannelTitles, Min(limit, MaxChannelRecords - chanUsed))
    ELSE {<<>>, [n \in 1..limit |-> FullChannel]}

\* the result lists a playlist search with this limit may return
PlaylistResults(limit) ==
    IF upstream = "varied"
    THEN SeqsUpTo(PlaylistRecords, Min(limit, MaxPlaylistRecords - plUsed))
    ELSE {<<>>, [n \in 1..limit |-> FullPlaylist]}

Call(cat, query, limit, ok, result) ==
    [cat |-> cat, query |-> query, limit |-> limit, ok |-> ok, result |-> result]

-----------------------------------------------------------------------------
(* Data helpers *)

EmptyDict == [x \in {} |-> <<>>]

DictPut(d, key, v) ==
    [x \in (DOMAIN d) \cup {key} |-> IF x = key THEN v ELSE d[x]]

\* p['thumbnails'][0]['url'] raises IndexError on an empty list
ThumbnailRaises(p) == Len(p.thumbnails) = 0

\* the dict literal appended to playlists_sugeridas
NovaEntrada(p, canal) ==
    [titulo |-> p.title, link |-> p.link,
     thumbnail |-> p.thumbnails[1].url, canal |-> canal]

\* the membership test left out
LinkNovoSempre(p, seen) == TRUE

\* p['link'] not in seen_links
LinkNovo(p, seen) == p.link \notin seen

\* the add left out
SeenSemAdd(seen, p) == seen

\* seen_links.add(p['link'])
SeenAdd(seen, p) == seen \cup {p.link}

\* insert(0, e) instead of append(e)
ListaPrepend(l, e) == <<e>> \o l

\* playlists_sugeridas.append(e)
ListaAppend(l, e) == Append(l, e)

\* the loop walks each distinct title once: the channel titles without
\* repetitions, first occurrence kept
TitulosDistintos(r) ==
    LET F[n \in 0..Len(r)] ==
            IF n = 0 THEN <<>>
            ELSE IF \E m \in 1..(n - 1) : r[m] = r[n] THEN F[n - 1]
                 ELSE Append(F[n - 1], r[n])
    IN F[Len(r)]

\* for c in canais: the loop walks the result list as returned
CanaisAPercorrer(r) == r

\* a set that outlives the request
SeenMantido(old) == old

\* seen_links = set() at the start of a request
SeenInicial(old) == {}

NoResponse == [kind |-> "none", body |-> <<>>]
\* an empty list returned in place of the error object
RespostaListaVazia == [kind |-> "list", body |-> <<>>]
ErrorResponse == [kind |-> "error", body |-> <<>>]
RaizResponse == [kind |-> "message", body |-> <<>>]
ExceptionResponse == [kind |-> "exception", body |-> <<>>]
ListResponse(l) == [kind |-> "list", body |-> l]

LinksOf(l) == {l[n].link : n \in 1..Len(l)}

-----------------------------------------------------------------------------
(* Initial states *)

InitLocals ==
    /\ categoria = ""
    /\ i = 0
    /\ canais = <<>>
    /\ j = 0
    /\ nome_canal = ""
    /\ playlists = <<>>
    /\ k = 0
    /\ playlists_sugeridas = <<>>
    /\ seen_links = {}

InitPrograma ==
    /\ programa \in {"server", "updater"}
    /\ pc = IF programa = "server" THEN "idle" ELSE "cat"
    /\ ci = IF programa = "server" THEN 0 ELSE 1
    /\ InitLocals
    /\ todas_playlists = EmptyDict
    /\ files = <<>>
    /\ printed = FALSE
    /\ response = NoResponse
    /\ earlier_links = {}
    /\ chanLog = <<>>
    /\ plLog = <<>>
    /\ chanUsed = 0
    /\ plUsed = 0

Init == InitPrograma /\ upstream = "varied"

InitSize == InitPrograma /\ upstream = "saturating"

-----------------------------------------------------------------------------
(* api/sugerir_playlists.py.py *)

\* GET /
raiz ==
    /\ programa = "server"
    /\ pc = "idle"
    /\ response' = RaizResponse
    /\ UNCHANGED <<programa, upstream, pc, ci, locals, todas_playlists, files, printed,
                   earlier_links, chanLog, plLog, chanUsed, plUsed>>

\* GET /sugerir_playlists?categoria=c : the guard and the two initialisations
sugerir_playlists_begin ==
    /\ programa = "server"
    /\ pc = "idle"
    /\ chanLog' = <<>>
    /\ plLog' = <<>>
    /\ chanUsed' = 0
    /\ plUsed' = 0
    /\ earlier_links' = earlier_links \cup
            (IF response.kind = "list" THEN LinksOf(response.body) ELSE {})
    /\ \E c \in RequestedCategories :
        /\ categoria' = c
        /\ IF ~CategoriaConhecida(c)
           THEN /\ response' = ErrorResponse
                /\ pc' = "idle"
                /\ playlists_sugeridas' = <<>>
                /\ seen_links' = {}
                /\ i' = 0
           ELSE /\ response' = NoResponse
                /\ playlists_sugeridas' = <<>>
                /\ seen_links' = SeenInicial(seen_links)
                /\ i' = 1
                /\ pc' = "seed"
    \* a new invocation: the other locals are unbound
    /\ canais' = <<>>
    /\ j' = 0
    /\ nome_canal' = ""
    /\ playlists' = <<>>
    /\ k' = 0
    /\ UNCHANGED <<programa, upstream, ci, todas_playlists, files, printed>>

\* an exception leaves the handler: the request is answered without a body
ServerRaise ==
    /\ response' = ExceptionResponse
    /\ pc' = "idle"

\* for canal in categorias_canais[categoria]: ChannelsSearch(canal, limit=3)
sugerir_playlists_seed ==
    /\ programa = "server"
    /\ pc = "seed"
    /\ IF i > Len(categorias_canais[categoria])
       THEN \* return playlists_sugeridas
            /\ response' = ListResponse(playlists_sugeridas)
            /\ pc' = "idle"
            /\ UNCHANGED <<canais, j, chanLog, chanUsed>>
       ELSE LET canal == categorias_canais[categoria][i] IN
            \/ \E r \in ChannelResults(ChannelLimit) :
                /\ canais' = r
                /\ j' = 1
                /\ chanLog' = Append(chanLog, Call(categoria, canal, ChannelLimit, TRUE, r))
                /\ chanUsed' = chanUsed + Len(r)
                /\ pc' = "chan"
                /\ UNCHANGED response
            \/ /\ chanLog' = Append(chanLog, Call(categoria, canal, ChannelLimit, FALSE, <<>>))
               /\ ServerRaise
               /\ UNCHANGED <<canais, j, chanUsed>>
    /\ UNCHANGED <<programa, upstream, categoria, ci, i, nome_canal, playlists, k,
                   playlists_sugeridas, seen_links, todas_playlists, files,
                   printed, earlier_links, plLog, plUsed>>

\* for c in canais: nome_canal = c['title']; PlaylistsSearch(nome_canal, limit=5)
sugerir_playlists_chan ==
    /\ programa = "server"
    /\ pc = "chan"
    /\ IF j > Len(CanaisAPercorrer(canais))
       THEN /\ i' = i + 1
            /\ pc' = "seed"
            /\ UNCHANGED <<nome_canal, playlists, k, plLog, plUsed, response>>
       ELSE /\ nome_canal' = CanaisAPercorrer(canais)[j]
            /\ \/ \E r \in PlaylistResults(PlaylistLimit) :
                   /\ playlists' = r
                   /\ k' = 1
                   /\ plLog' = Append(plLog, Call(categoria, nome_canal', PlaylistLimit, TRUE, r))
                   /\ plUsed' = plUsed + Len(r)
                   /\ pc' = "pl"
                   /\ UNCHANGED <<response>>
               \/ /\ plLog' = Append(plLog, Call(categoria, nome_canal', PlaylistLimit, FALSE, <<>>))
                  /\ ServerRaise
                  /\ UNCHANGED <<playlists, k, plUsed>>
            /\ UNCHANGED i
    /\ UNCHANGED <<programa, upstream, categoria, ci, canais, j, playlists_sugeridas,
                   seen_links, todas_playlists, files, printed, earlier_links, chanLog, chanUsed>>

\* for p in playlists: if p['link'] not in seen_links: append, add
sugerir_playlists_pl ==
    /\ programa = "server"
    /\ pc = "pl"
    /\ IF k > Len(playlists)
       THEN /\ j' = j + 1
            /\ pc' = "chan"
            /\ UNCHANGED <<k, playlists_sugeridas, seen_links, response>>
       ELSE LET p == playlists[k] IN
            IF LinkNovo(p, seen_links)
            THEN IF ThumbnailRaises(p)
                 THEN /\ ServerRaise
                      /\ UNCHANGED <<j, k, playlists_sugeridas, seen_links>>
                 ELSE /\ playlists_sugeridas' =
                            ListaAppend(playlists_sugeridas, NovaEntrada(p, nome_canal))
                      /\ seen_links' = SeenAdd(seen_links, p)
                      /\ k' = k + 1
                      /\ UNCHANGED <<j, pc, response>>
            ELSE /\ k' = k + 1
                 /\ UNCHANGED <<j, pc, playlists_sugeridas, seen_links, response>>
    /\ UNCHANGED <<programa, upstream, categoria, ci, i, canais, nome_canal, playlists,
                   todas_playlists, files, printed, earlier_links,
                   chanLog, plLog, chanUsed, plUsed>>

-----------------------------------------------------------------------------
(* api/daily_updater.py *)

\* the exception swallowed and the export written all the same
ExcecaoEngolida == pc' = "save"

\* an exception leaves atualizar_playlists: the script dies with a traceback
UpdaterRaise == pc' = "crashed"

\* the export written after the first category
CategoriasEsgotadasCedo(n) == n > 1

\* the loop over categorias_canais.items() is exhausted
CategoriasEsgotadas(n) == n > Len(Categorias)

\* for categoria, canais in categorias_canais.items(): playlists_sugeridas = []
atualizar_playlists_cat ==
    /\ programa = "updater"
    /\ pc = "cat"
    /\ IF CategoriasEsgotadas(ci)
       THEN /\ pc' = "save"
            /\ UNCHANGED <<categoria, playlists_sugeridas, i>>
       ELSE /\ categoria' = Categorias[ci]
            /\ playlists_sugeridas' = <<>>
            /\ i' = 1
            /\ pc' = "seed"
    /\ UNCHANGED <<programa, upstream, ci, canais, j, nome_canal, playlists, k, seen_links,
                   todas_playlists, files, printed, response, earlier_links,
                   chanLog, plLog, chanUsed, plUsed>>

\* for canal in canais: ChannelsSearch(canal, limit=3); after the loop,
\* todas_playlists[categoria] = playlists_sugeridas
atualizar_playlists_seed ==
    /\ programa = "updater"
    /\ pc = "seed"
    /\ IF i > Len(categorias_canais[categoria])
       THEN /\ todas_playlists' = DictPut(todas_playlists, categoria, playlists_sugeridas)
            /\ ci' = ci + 1
            /\ pc' = "cat"
            /\ UNCHANGED <<canais, j, chanLog, chanUsed>>
       ELSE LET canal == categorias_canais[categoria][i] IN
            /\ \/ \E r \in ChannelResults(ChannelLimit) :
                   /\ canais' = r
                   /\ j' = 1
                   /\ chanLog' = Append(chanLog, Call(categoria, canal, ChannelLimit, TRUE, r))
                   /\ chanUsed' = chanUsed + Len(r)
                   /\ pc' = "chan"
               \/ /\ chanLog' = Append(chanLog, Call(categoria, canal, ChannelLimit, FALSE, <<>>))
                  /\ UpdaterRaise
                  /\ UNCHANGED <<canais, j, chanUsed>>
            /\ UNCHANGED <<todas_playlists, ci>>
    /\ UNCHANGED <<programa, upstream, categoria, i, nome_canal, playlists, k,
                   playlists_sugeridas, seen_links, files, printed, response,
                   earlier_links, plLog, plUsed>>

\* for c in canais_encontrados: nome_canal = c['title'];
\* PlaylistsSearch(nome_canal, limit=5)
atualizar_playlists_chan ==
    /\ programa = "updater"
    /\ pc = "chan"
    /\ IF j > Len(CanaisAPercorrer(canais))
       THEN /\ i' = i + 1
            /\ pc' = "seed"
            /\ UNCHANGED <<nome_canal, playlists, k, plLog, plUsed>>
       ELSE /\ nome_canal' = CanaisAPercorrer(canais)[j]
            /\ \/ \E r \in PlaylistResults(PlaylistLimit) :
                   /\ playlists' = r
                   /\ k' = 1
                   /\ plLog' = Append(plLog, Call(categoria, nome_canal', PlaylistLimit, TRUE, r))
                   /\ plUsed' = plUsed + Len(r)
                   /\ pc' = "pl"
               \/ /\ plLog' = Append(plLog, Call(categoria, nome_canal', PlaylistLimit, FALSE, <<>>))
                  /\ UpdaterRaise
                  /\ UNCHANGED <<playlists, k, plUsed>>
            /\ UNCHANGED i
    /\ UNCHANGED <<programa, upstream, categoria, ci, canais, j, playlists_sugeridas,
                   seen_links, todas_playlists, files, printed, response,
                   earlier_links, chanLog, chanUsed>>

\* for p in playlists: playlists_sugeridas.append({...})
atualizar_playlists_pl ==
    /\ programa = "updater"
    /\ pc = "pl"
    /\ IF k > Len(playlists)
       THEN /\ j' = j + 1
            /\ pc' = "chan"
            /\ UNCHANGED <<k, playlists_sugeridas>>
       ELSE LET p == playlists[k] IN
            IF ThumbnailRaises(p)
            THEN /\ UpdaterRaise
                 /\ UNCHANGED <<j, k, playlists_sugeridas>>
            ELSE /\ playlists_sugeridas' =
                       ListaAppend(playlists_sugeridas, NovaEntrada(p, nome_canal))
                 /\ k' = k + 1
                 /\ UNCHANGED <<j, pc>>
    /\ UNCHANGED <<programa, upstream, categoria, ci, i, canais, nome_canal, playlists,
                   seen_links, todas_playlists, files, printed, response,
                   earlier_links, chanLog, plLog, chanUsed, plUsed>>

\* with open(f"playlists_{now}.json", "w") as f: json.dump(todas_playlists, f)
atualizar_playlists_save ==
    /\ programa = "updater"
    /\ pc = "save"
    /\ files' = Append(files, todas_playlists)
    /\ pc' = "print"
    /\ UNCHANGED <<programa, upstream, ci, locals, todas_playlists, printed, response,
                   earlier_links, chanLog, plLog, chanUsed, plUsed>>

\* print("Playlists atualizadas com sucesso!")
atualizar_playlists_print ==
    /\ programa = "updater"
    /\ pc = "print"
    /\ printed' = TRUE
    /\ pc' = "exited"
    /\ UNCHANGED <<programa, upstream, ci, locals, todas_playlists, files, response,
                   earlier_links, chanLog, plLog, chanUsed, plUsed>>

Next ==
    \/ raiz
    \/ sugerir_playlists_begin
    \/ sugerir_playlists_seed
    \/ sugerir_playlists_chan
    \/ sugerir_playlists_pl
    \/ atualizar_playlists_cat
    \/ atualizar_playlists_seed
    \/ atualizar_playlists_chan
    \/ atualizar_playlists_pl
    \/ atualizar_playlists_save
    \/ atualizar_playlists_print

Spec == Init /\ [][Next]_vars

\* the same program against an upstream that fills every page
SpecSize == InitSize /\ [][Next]_vars


-----------------------------------------------------------------------------
(* What a run has received, read from the history of its searches *)

Flatten(ss) ==
    LET F[n \in 0..Len(ss)] == IF n = 0 THEN <<>> ELSE F[n - 1] \o ss[n]
    IN F[Len(ss)]

CallsOf(log, cat) == SelectSeq(log, LAMBDA e : e.cat = cat)

Queries(log) == [n \in 1..Len(log) |-> log[n].query]

Results(log) == [n \in 1..Len(log) |-> log[n].result]

\* the channel records returned for cat, seed by seed, record by record
CanaisRecebidos(cat) == Flatten(Results(CallsOf(chanLog, cat)))

\* the playlist records returned for cat in the order the searches were issued,
\* each with the channel title it was searched under
Recebidos(cat) ==
    LET calls == CallsOf(plLog, cat) IN
    Flatten([n \in 1..Len(calls) |->
                [m \in 1..Len(calls[n].result) |->
                    [p |-> calls[n].result[m], canal |-> calls[n].query]]])

\* the same records in traversal order seed, channel record, playlist: the n-th
\* playlist search is paired with the n-th channel record returned
Percurso(cat) ==
    LET calls == CallsOf(plLog, cat)
        cs == CanaisRecebidos(cat)
    IN Flatten([n \in 1..Min(Len(calls), Len(cs)) |->
                   [m \in 1..Len(calls[n].result) |->
                       [p |-> calls[n].result[m], canal |-> cs[n]]]])

SemThumbnailVazio(pairs) ==
    \A n \in 1..Len(pairs) : ~ThumbnailRaises(pairs[n].p)

\* the list the updater builds from records in this order
ListaSemFiltro(pairs) ==
    [n \in 1..Len(pairs) |-> NovaEntrada(pairs[n].p, pairs[n].canal)]

\* l with every entry whose link appeared earlier in l removed
SemRepetidos(l) ==
    LET F[n \in 0..Len(l)] ==
            IF n = 0 THEN <<>>
            ELSE IF \E m \in 1..(n - 1) : l[m].link = l[n].link THEN F[n - 1]
                 ELSE Append(F[n - 1], l[n])
    IN F[Len(l)]

LinksDistintos(l) ==
    \A a, b \in 1..Len(l) : a # b => l[a].link # l[b].link

AllOk(log) == \A n \in 1..Len(log) : log[n].ok

ServerReturnedList == programa = "server" /\ pc = "idle" /\ response.kind = "list"

InServerLoop == programa = "server" /\ pc \in {"seed", "chan", "pl"}

-----------------------------------------------------------------------------
(* Claims *)

\* C1: the list the query endpoint returns for a known category holds no two
\* entries with the same link, whatever the searches returned.
C1_QueryLinksDistinct ==
    ServerReturnedList => LinksDistintos(response.body)

\* C1 witness: a list returned after the same link was received twice, under
\* two different channels
C1_Witness ==
    /\ ServerReturnedList
    /\ Len(response.body) = 1
    /\ Len(Recebidos(categoria)) = 2
    /\ Recebidos(categoria)[1].canal # Recebidos(categoria)[2].canal

\* C2: every category list the batch updater stores and exports holds no two
\* entries with the same link.
C2_UpdaterLinksDistinct ==
    programa = "updater" =>
        /\ \A c \in DOMAIN todas_playlists : LinksDistintos(todas_playlists[c])
        /\ \A f \in 1..Len(files) :
               \A c \in DOMAIN files[f] : LinksDistintos(files[f][c])

\* C3: a request for a category outside the mapping returns the error object
\* and issues no search; a request for a category of the mapping that returns
\* returns a list, never the error object.
C3_UnknownCategory ==
    (programa = "server" /\ pc = "idle" /\ response.kind \notin {"none", "message"}) =>
        /\ categoria \notin DOMAIN categorias_canais =>
               response.kind = "error" /\ chanLog = <<>> /\ plLog = <<>>
        /\ categoria \in DOMAIN categorias_canais =>
               response.kind \in {"list", "exception"}

\* C3 witness: an unknown category answered with the error object right after
\* a request that did search
C3_Witness ==
    /\ programa = "server" /\ pc = "idle"
    /\ categoria = "Culinaria"
    /\ response.kind = "error"
    /\ earlier_links # {}

\* C4: for the same responses, the list the query endpoint returns is the
\* updater's list for the category with later repetitions of a link removed;
\* both walk seed, then channel record, then playlist.
C4_QueryIsUpdaterDeduplicated ==
    /\ (ServerReturnedList /\ SemThumbnailVazio(Percurso(categoria))) =>
           response.body = SemRepetidos(ListaSemFiltro(Percurso(categoria)))
    /\ programa = "updater" =>
           \A c \in DOMAIN todas_playlists :
               /\ SemThumbnailVazio(Percurso(c))
               /\ todas_playlists[c] = ListaSemFiltro(Percurso(c))

\* C4 witness: the unfiltered list has two different entries with one link and
\* the returned list is its first entry alone
C4_Witness ==
    /\ ServerReturnedList
    /\ SemThumbnailVazio(Percurso(categoria))
    /\ Len(ListaSemFiltro(Percurso(categoria))) = 2
    /\ ListaSemFiltro(Percurso(categoria))[1] # ListaSemFiltro(Percurso(categoria))[2]
    /\ response.body = <<ListaSemFiltro(Percurso(categoria))[1]>>

\* C5: every channel search is issued with limit 3 and every playlist search
\* with limit 5, the upstream returns no more than the limit, and the list of a
\* category with n seed names never holds more than n*3*5 entries, in the
\* query endpoint and in the updater.
C5_SizeBound ==
    /\ \A n \in 1..Len(chanLog) :
           chanLog[n].limit = 3 /\ Len(chanLog[n].result) <= 3
    /\ \A n \in 1..Len(plLog) :
           plLog[n].limit = 5 /\ Len(plLog[n].result) <= 5
    /\ categoria \in DOMAIN categorias_canais =>
           Len(playlists_sugeridas) <= Len(categorias_canais[categoria]) * 3 * 5
    /\ response.kind = "list" => Len(response.body) <= 30
    /\ \A c \in DOMAIN todas_playlists : Len(todas_playlists[c]) <= 30
    /\ \A f \in 1..Len(files) : \A c \in DOMAIN files[f] : Len(files[f][c]) <= 30

\* C5 witness: an export in which a category holds exactly 30 entries
C5_Witness ==
    /\ programa = "updater" /\ pc = "exited"
    /\ \E c \in DOMAIN files[1] : Len(files[1][c]) = 30

\* C6: the updater writes one file per run, after every category was
\* processed, with exactly the keys of the mapping; a run in which a search or
\* a record access failed writes no file and prints nothing.
C6_OneExportAfterAll ==
    programa = "updater" =>
        /\ Len(files) <= 1
        /\ files # <<>> =>
               /\ pc \in {"print", "exited"}
               /\ DOMAIN files[1] = DOMAIN categorias_canais
               /\ files[1] = todas_playlists
               /\ ci > Len(Categorias)
        /\ pc = "exited" => Len(files) = 1 /\ printed
        /\ printed => files # <<>>
        /\ (pc = "crashed" \/ ~AllOk(chanLog) \/ ~AllOk(plLog)
              \/ \E c \in DOMAIN categorias_canais : ~SemThumbnailVazio(Recebidos(c)))
             => files = <<>> /\ ~printed /\ pc \notin {"save", "print", "exited"}

\* C6 witness: a finished run whose file holds an empty and a non-empty category
C6_Witness ==
    /\ programa = "updater" /\ pc = "exited" /\ Len(files) = 1
    /\ \E c, d \in DOMAIN files[1] : files[1][c] = <<>> /\ files[1][d] # <<>>

\* C7: in one run for a category exactly one channel search is issued per seed
\* name, in order, and exactly one playlist search per channel record
\* returned, in order, also when a title was returned more than once.
C7_OneSearchPerOccurrence ==
    LET IsPrefix(a, b) == Len(a) <= Len(b) /\ \A n \in 1..Len(a) : a[n] = b[n]
        Complete(c) ==
            /\ Queries(CallsOf(chanLog, c)) = categorias_canais[c]
            /\ Queries(CallsOf(plLog, c)) = CanaisRecebidos(c)
    IN /\ \A c \in DOMAIN categorias_canais :
              /\ IsPrefix(Queries(CallsOf(chanLog, c)), categorias_canais[c])
              /\ IsPrefix(Queries(CallsOf(plLog, c)), CanaisRecebidos(c))
       /\ ServerReturnedList => Complete(categoria)
       /\ programa = "updater" => \A c \in DOMAIN todas_playlists : Complete(c)

\* C7 witness: a finished request in which one seed returned the same title
\* twice and the title was searched twice
C7_Witness ==
    /\ ServerReturnedList
    /\ \E n \in 1..Len(chanLog) :
           Len(chanLog[n].result) = 2 /\ chanLog[n].result[1] = chanLog[n].result[2]
    /\ Len(plLog) = 2
    /\ plLog[1].query = plLog[2].query

\* C8: every request starts with an empty seen_links and an empty list, and
\* every link received during a request is in the list it returns, whatever
\* earlier requests returned.
C8_FreshPerRequest ==
    /\ (programa = "server" /\ pc = "seed" /\ i = 1) =>
           seen_links = {} /\ playlists_sugeridas = <<>>
    /\ ServerReturnedList =>
           LinksOf(response.body) =
               {Recebidos(categoria)[n].p.link : n \in 1..Len(Recebidos(categoria))}

\* C8 witness: a request returns a link that an earlier request returned
C8_Witness ==
    /\ ServerReturnedList
    /\ LinksOf(response.body) \cap earlier_links # {}

\* C9: inside the loop of the query endpoint seen_links is the set of links of
\* the collected entries; every entry's canal was returned by a channel search
\* for a seed of the category, its link by a playlist search for that canal,
\* and the entry is the one built from the first record received with its link.
C9_LoopInvariant ==
    InServerLoop =>
        LET rec == Recebidos(categoria)
            First(l) == CHOOSE n \in 1..Len(rec) :
                            /\ rec[n].p.link = l
                            /\ \A m \in 1..(n - 1) : rec[m].p.link # l
        IN /\ seen_links = LinksOf(playlists_sugeridas)
           /\ \A n \in 1..Len(playlists_sugeridas) :
                  LET e == playlists_sugeridas[n] IN
                  /\ \E a \in 1..Len(chanLog) :
                         /\ chanLog[a].query \in
                                {categorias_canais[categoria][s] :
                                    s \in 1..Len(categorias_canais[categoria])}
                         /\ \E b \in 1..Len(chanLog[a].result) :
                                chanLog[a].result[b] = e.canal
                  /\ \E a \in 1..Len(plLog) :
                         /\ plLog[a].query = e.canal
                         /\ \E b \in 1..Len(plLog[a].result) :
                                plLog[a].result[b].link = e.link
                  /\ \E m \in 1..Len(rec) : rec[m].p.link = e.link
                  /\ e.titulo = rec[First(e.link)].p.title
                  /\ e.canal = rec[First(e.link)].canal
                  /\ e.thumbnail = rec[First(e.link)].p.thumbnails[1].url

\* C9 witness: both records of one link were walked, under different channels
\* and titles, and one entry was kept
C9_Witness ==
    /\ programa = "server" /\ pc = "seed"
    /\ Len(Recebidos(categoria)) = 2
    /\ Recebidos(categoria)[1].p.link = Recebidos(categoria)[2].p.link
    /\ Recebidos(categoria)[1].p.title # Recebidos(categoria)[2].p.title
    /\ Recebidos(categoria)[1].canal # Recebidos(categoria)[2].canal
    /\ Len(playlists_sugeridas) = 1

\* the loop is about to handle a record whose thumbnail list is empty
AtEmptyThumbnail ==
    /\ pc = "pl"
    /\ k <= Len(playlists)
    /\ Len(playlists[k].thumbnails) = 0

\* the operation ends with an error, nothing appended, nothing written
Aborts ==
    \/ /\ programa = "server"
       /\ pc' = "idle"
       /\ response'.kind = "exception"
       /\ UNCHANGED <<playlists_sugeridas, seen_links>>
    \/ /\ programa = "updater"
       /\ pc' = "crashed"
       /\ files' = <<>>
       /\ ~printed'
       /\ UNCHANGED <<playlists_sugeridas, todas_playlists>>

\* C10 as stated: a record with an empty thumbnail list always aborts the
\* operation, before anything is appended or added.
C10_EmptyThumbnailAborts ==
    [][AtEmptyThumbnail => Aborts]_vars

\* C10 amended: such a record aborts the operation unless the query endpoint
\* has its link in seen_links already; then it is skipped as a repetition and
\* the request goes on.
C10_EmptyThumbnailAbortsUnlessSeen ==
    [][AtEmptyThumbnail =>
          IF programa = "server" /\ playlists[k].link \in seen_links
          THEN /\ pc' = "pl"
               /\ k' = k + 1
               /\ UNCHANGED <<playlists_sugeridas, seen_links, response>>
          ELSE Aborts]_vars

\* C10 witness: the updater crashed on such a record in the second category,
\* with the first category already stored
C10_Witness ==
    /\ programa = "updater" /\ pc = "crashed"
    /\ DOMAIN todas_playlists # {}
    /\ k \in 1..Len(playlists)
    /\ Len(playlists[k].thumbnails) = 0
    /\ files = <<>>

====
